---- MODULE Spec2Model ----
(***************************************************************************)
(* A model of github.com/FlowSeer/fail: the facet extraction functions     *)
(* (ExitCode, HttpStatusCode, Code, Causes, ...), and the Builder / Fail   *)
(* construction discipline with Go's reference semantics for maps and      *)
(* slices.                                                                 *)
(*                                                                         *)
(* An error value is Nil or a record [error, m]: error is the text that    *)
(* Error() returns and m is the method table of the dynamic type, a        *)
(* function from the names of the capability methods the type has to the   *)
(* values they return.  A type assertion err.(ErrorExitCode) is            *)
(* Implements(err, "ErrorExitCode").                                       *)
(***************************************************************************)
EXTENDS Integers, Sequences, FiniteSets, TLC

VARIABLES
    call,      \* the extraction call made: the function, its argument, its result
    heap,      \* the Go heap: backing arrays of slices, tag maps, attribute maps
    bld,       \* the caller's Builder values, by variable name
    rec,       \* the caller's finalized Fail values, by variable name
    explicit,  \* history: the setters called on the way to each value
    origin,    \* history: the record each value was derived from by From, if any
    graph,     \* the error objects of a call in progress, by address
    stack      \* the frames of a call in progress, the running one last

vars == <<call, heap, bld, rec, explicit, origin, graph, stack>>
builderVars == <<heap, bld, rec, explicit, origin>>
runVars == <<graph, stack>>

\* ------------------------------------------------------------ constants

DefaultExitCode == 1
DefaultHttpStatusCode == 500
DefaultErrorCode == "ERR_UNKNOWN"
DomainUnknown == "unknown"
ZeroTime == 0

\* The longest cause list an input error carries.
MaxCauses == 2

\* ------------------------------------------------------------ Go values

Nil == [nil |-> TRUE]

\* A Go slice value: the nil slice, or a slice holding the elements s.
NilSlice == [isNil |-> TRUE, s |-> <<>>]
Slice(s) == [isNil |-> FALSE, s |-> s]

\* A Go map value: the nil map, or a map with the entries kv.
NilMap == [isNil |-> TRUE, kv |-> <<>>]
Map(kv) == [isNil |-> FALSE, kv |-> kv]

NoMethods == <<>>
E(text, m) == [error |-> text, m |-> m]

Elems(q) == {q[i] : i \in 1..Len(q)}

Implements(err, method) == err # Nil /\ method \in DOMAIN err.m

\* ------------------------------------------------------------ causes.go

\* Causes probing the legacy Cause() shape before Unwrap().
CausesCauseFirst(err) ==
    IF err = Nil THEN NilSlice
    ELSE IF Implements(err, "ErrorCauses") THEN err.m["ErrorCauses"]
    ELSE IF Implements(err, "UnwrapSlice") THEN err.m["UnwrapSlice"]
    ELSE IF Implements(err, "Cause") THEN Slice(<<err.m["Cause"]>>)
    ELSE IF Implements(err, "Unwrap") THEN Slice(<<err.m["Unwrap"]>>)
    ELSE NilSlice

Causes(err) ==
    IF err = Nil THEN NilSlice
    ELSE IF Implements(err, "ErrorCauses") THEN err.m["ErrorCauses"]
    ELSE IF Implements(err, "UnwrapSlice") THEN err.m["UnwrapSlice"]
    ELSE IF Implements(err, "Unwrap") THEN Slice(<<err.m["Unwrap"]>>)
    ELSE IF Implements(err, "Cause") THEN Slice(<<err.m["Cause"]>>)
    ELSE NilSlice

\* ------------------------------------------------------------ exit_code.go

RECURSIVE ExitCode(_)

\* ExitCodeLoop taking each cause's resolved exit code instead of probing
\* the cause for the capability.
RECURSIVE ExitCodeLoopResolved(_, _, _)
ExitCodeLoopResolved(causes, i, maxExitCode) ==
    IF i > Len(causes) THEN maxExitCode
    ELSE IF ExitCode(causes[i]) > maxExitCode
         THEN ExitCodeLoopResolved(causes, i + 1, ExitCode(causes[i]))
         ELSE ExitCodeLoopResolved(causes, i + 1, maxExitCode)

\* The loop of ExitCode over causes[i..], with maxExitCode so far.
RECURSIVE ExitCodeLoop(_, _, _)
ExitCodeLoop(causes, i, maxExitCode) ==
    IF i > Len(causes) THEN maxExitCode
    ELSE LET cause == causes[i] IN
         IF Implements(cause, "ErrorExitCode")
              /\ cause.m["ErrorExitCode"] > maxExitCode
         THEN ExitCodeLoop(causes, i + 1, cause.m["ErrorExitCode"])
         ELSE ExitCodeLoop(causes, i + 1, maxExitCode)

\* ExitCode letting a more severe cause override the error's own exit code.
ExitCodeMergesCauses(err) ==
    IF err = Nil THEN 0
    ELSE IF Implements(err, "ErrorExitCode")
         THEN ExitCodeLoop(Causes(err).s, 1, err.m["ErrorExitCode"])
    ELSE ExitCodeLoop(Causes(err).s, 1, DefaultExitCode)

ExitCode(err) ==
    IF err = Nil THEN 0
    ELSE IF Implements(err, "ErrorExitCode") THEN err.m["ErrorExitCode"]
    ELSE ExitCodeLoop(Causes(err).s, 1, DefaultExitCode)

\* ------------------------------------------------------------ unnamed/part_009 (HttpStatusCode)

RECURSIVE HttpStatusCodeLoop(_, _, _)
HttpStatusCodeLoop(causes, i, maxHttpStatusCode) ==
    IF i > Len(causes) THEN maxHttpStatusCode
    ELSE LET cause == causes[i] IN
         IF Implements(cause, "ErrorHttpStatusCode")
              /\ cause.m["ErrorHttpStatusCode"] > maxHttpStatusCode
         THEN HttpStatusCodeLoop(causes, i + 1, cause.m["ErrorHttpStatusCode"])
         ELSE HttpStatusCodeLoop(causes, i + 1, maxHttpStatusCode)

\* HttpStatusCode answering a nil error with the default status.
HttpStatusCodeNilIsDefault(err) ==
    IF err = Nil THEN DefaultHttpStatusCode
    ELSE IF Implements(err, "ErrorHttpStatusCode") THEN err.m["ErrorHttpStatusCode"]
    ELSE HttpStatusCodeLoop(Causes(err).s, 1, DefaultHttpStatusCode)

HttpStatusCode(err) ==
    IF err = Nil THEN 200
    ELSE IF Implements(err, "ErrorHttpStatusCode") THEN err.m["ErrorHttpStatusCode"]
    ELSE HttpStatusCodeLoop(Causes(err).s, 1, DefaultHttpStatusCode)

\* ------------------------------------------------------------ code.go

RECURSIVE Code(_)
RECURSIVE CodeLoop(_, _, _, _)

\* CodeLoop without the assignment maxExitCode = causeExitCode.
CodeLoopKeepsMaxExitCode(causes, i, maxCode, maxExitCode) ==
    IF i > Len(causes) THEN maxCode
    ELSE LET cause == causes[i]
             causeExitCode == ExitCode(cause)
             causeCode == Code(cause)
         IN  IF causeExitCode > maxExitCode
             THEN CodeLoop(causes, i + 1, causeCode, maxExitCode)
             ELSE IF maxCode = DefaultErrorCode /\ causeCode # DefaultErrorCode
             THEN CodeLoop(causes, i + 1, causeCode, maxExitCode)
             ELSE CodeLoop(causes, i + 1, maxCode, maxExitCode)

\* The loop of Code over causes[i..], with maxCode and maxExitCode so far.
CodeLoop(causes, i, maxCode, maxExitCode) ==
    IF i > Len(causes) THEN maxCode
    ELSE LET cause == causes[i]
             causeExitCode == ExitCode(cause)
             causeCode == Code(cause)
         IN  IF causeExitCode > maxExitCode
             THEN CodeLoop(causes, i + 1, causeCode, causeExitCode)
             ELSE IF maxCode = DefaultErrorCode /\ causeCode # DefaultErrorCode
             THEN CodeLoop(causes, i + 1, causeCode, maxExitCode)
             ELSE CodeLoop(causes, i + 1, maxCode, maxExitCode)

Code(err) ==
    IF err = Nil THEN ""
    ELSE IF Implements(err, "ErrorCode") THEN err.m["ErrorCode"]
    ELSE CodeLoop(Causes(err).s, 1, DefaultErrorCode, 0)

\* ------------------------------------------------------------ message.go, unnamed/part_012 (UserMessage)

Message(err) ==
    IF err = Nil THEN ""
    ELSE IF Implements(err, "ErrorMessage") THEN err.m["ErrorMessage"]
    ELSE err.error

UserMessage(err) ==
    IF err = Nil THEN ""
    ELSE IF Implements(err, "ErrorUserMessage") THEN err.m["ErrorUserMessage"]
    ELSE err.error

\* ------------------------------------------------------------ time.go (Time, Domain), unnamed/part_007 (TraceId), span.go

Domain(err) ==
    IF err = Nil THEN ""
    ELSE IF Implements(err, "ErrorDomain") THEN err.m["ErrorDomain"]
    ELSE DomainUnknown

Time(err) ==
    IF err = Nil THEN ZeroTime
    ELSE IF Implements(err, "ErrorTime") THEN err.m["ErrorTime"]
    ELSE ZeroTime

TraceId(err) ==
    IF err = Nil THEN ""
    ELSE IF Implements(err, "ErrorTraceId") THEN err.m["ErrorTraceId"]
    ELSE ""

SpanId(err) ==
    IF err = Nil THEN ""
    ELSE IF Implements(err, "ErrorSpanId") THEN err.m["ErrorSpanId"]
    ELSE ""

\* ------------------------------------------------------------ associated.go, unnamed/part_004 (Attributes), tags.go

Associated(err) ==
    IF err = Nil THEN NilSlice
    ELSE IF Implements(err, "ErrorAssociated") THEN err.m["ErrorAssociated"]
    ELSE NilSlice

Attributes(err) ==
    IF err = Nil THEN Map(<<>>)
    ELSE IF Implements(err, "ErrorAttributes") /\ ~err.m["ErrorAttributes"].isNil
         THEN err.m["ErrorAttributes"]
    ELSE Map(<<>>)

\* The keys of the map tagsUniq that Tags fills from ErrorTags().
TagsUniq(err) == {err.m["ErrorTags"].s[i] : i \in 1..Len(err.m["ErrorTags"].s)}

\* Every order in which the keys of a Go map can be collected into a slice.
Orders(S) ==
    {f \in [1..Cardinality(S) -> S] : \A i, j \in 1..Cardinality(S) : f[i] = f[j] => i = j}

\* Tags handing on what the capability returned, without the map.
TagsAsReturned(err) ==
    IF err = Nil THEN {NilSlice}
    ELSE IF Implements(err, "ErrorTags") THEN {err.m["ErrorTags"]}
    ELSE {NilSlice}

\* What Tags(err) may return: map iteration order is not specified, and a
\* slice collected from no keys is the nil slice.
Tags(err) ==
    IF err = Nil THEN {NilSlice}
    ELSE IF Implements(err, "ErrorTags")
         THEN IF TagsUniq(err) = {} THEN {NilSlice}
              ELSE {Slice(f) : f \in Orders(TagsUniq(err))}
    ELSE {NilSlice}

\* ------------------------------------------------------------ the Go heap

\* A slice header: the backing array (0: none, the nil slice), length and
\* capacity.  heap.arrays[a] is the whole backing array, cap elements long.
NilHeader == [arr |-> 0, len |-> 0, cap |-> 0]

EmptyHeap == [arrays |-> <<>>, tagMaps |-> <<>>, attrMaps |-> <<>>]

\* What the slice holds: the first len elements of its backing array.
SliceOf(h, hdr) ==
    IF hdr.arr = 0 THEN NilSlice ELSE Slice(SubSeq(h.arrays[hdr.arr], 1, hdr.len))

\* append(slice, x): in place when the capacity allows, else into a new
\* backing array of twice the capacity.  Yields the heap and the new header.
GoAppend(h, hdr, x) ==
    IF hdr.len < hdr.cap
    THEN [heap |-> [h EXCEPT !.arrays[hdr.arr][hdr.len + 1] = x],
          hdr  |-> [hdr EXCEPT !.len = hdr.len + 1]]
    ELSE LET newcap == IF hdr.cap = 0 THEN 1 ELSE 2 * hdr.cap
             old == IF hdr.arr = 0 THEN <<>> ELSE SubSeq(h.arrays[hdr.arr], 1, hdr.len)
             fresh == [i \in 1..newcap |->
                          IF i <= hdr.len THEN old[i]
                          ELSE IF i = hdr.len + 1 THEN x ELSE Nil]
         IN  [heap |-> [h EXCEPT !.arrays = Append(h.arrays, fresh)],
              hdr  |-> [arr |-> Len(h.arrays) + 1, len |-> hdr.len + 1, cap |-> newcap]]

\* make(map[string]struct{}) and make(map[string]any): the heap with one
\* more empty map; its id is the length of the sequence.
MakeTagMap(h) == [h EXCEPT !.tagMaps = Append(h.tagMaps, {})]
MakeAttrMap(h) == [h EXCEPT !.attrMaps = Append(h.attrMaps, <<>>)]

\* ------------------------------------------------------------ fail.go

\* The message Msg substitutes for an empty one.
EmptyMessage == "<empty>"

\* newFail(msg), with its two maps made at the ids tags and attrs.
newFail(msg, tags, attrs) ==
    [time |-> ZeroTime, msg |-> msg, userMsg |-> "", domain |-> "",
     code |-> DefaultErrorCode, exitCode |-> DefaultExitCode,
     httpStatusCode |-> DefaultHttpStatusCode,
     causes |-> NilHeader, associated |-> NilHeader,
     tags |-> tags, attrs |-> attrs, spanId |-> "", traceId |-> ""]

\* The keys of a tag map in the order ErrorTags() collects them.
TagOrder(S) == CHOOSE f \in Orders(S) : TRUE

\* A Fail as an error value: the text of Error() and the methods of Fail,
\* each returning what the method reads through the heap.
FailAsError(h, f) ==
    E(f.msg,
      [ErrorCauses |-> SliceOf(h, f.causes),
       ErrorAssociated |-> SliceOf(h, f.associated),
       ErrorCode |-> f.code,
       ErrorExitCode |-> f.exitCode,
       ErrorHttpStatusCode |-> f.httpStatusCode,
       ErrorMessage |-> f.msg,
       ErrorUserMessage |-> f.userMsg,
       ErrorTags |-> IF f.tags = 0 \/ h.tagMaps[f.tags] = {} THEN NilSlice
                     ELSE Slice(TagOrder(h.tagMaps[f.tags])),
       ErrorAttributes |-> IF f.attrs = 0 THEN NilMap ELSE Map(h.attrMaps[f.attrs]),
       ErrorTime |-> f.time,
       ErrorTraceId |-> f.traceId,
       ErrorSpanId |-> f.spanId])

\* A slice value placed in storage of its own: a new backing array holding
\* exactly its elements; the nil slice stays nil.
AllocSlice(h, sl) ==
    IF sl.isNil THEN [heap |-> h, hdr |-> NilHeader]
    ELSE [heap |-> [h EXCEPT !.arrays = Append(h.arrays, sl.s)],
          hdr  |-> [arr |-> Len(h.arrays) + 1, len |-> Len(sl.s), cap |-> Len(sl.s)]]

\* Clone with one map shared with the receiver instead of copied.
CloneSharesTags(h, f) ==
    LET c  == AllocSlice(h, SliceOf(h, f.causes))
        a  == AllocSlice(c.heap, SliceOf(c.heap, f.associated))
        h2 == [a.heap EXCEPT !.attrMaps = Append(a.heap.attrMaps, h.attrMaps[f.attrs])]
    IN  [heap |-> h2,
         f |-> [time |-> ZeroTime, msg |-> f.msg, userMsg |-> f.userMsg, domain |-> "",
                code |-> f.code, exitCode |-> f.exitCode,
                httpStatusCode |-> f.httpStatusCode,
                causes |-> c.hdr, associated |-> a.hdr,
                tags |-> f.tags, attrs |-> Len(h2.attrMaps),
                spanId |-> "", traceId |-> ""]]

\* Fail.Clone: the nine fields it copies, the slices and maps into new
\* storage; time, domain, spanId and traceId are left at their zero values.
Clone(h, f) ==
    LET c  == AllocSlice(h, SliceOf(h, f.causes))
        a  == AllocSlice(c.heap, SliceOf(c.heap, f.associated))
        h1 == [a.heap EXCEPT !.tagMaps = Append(a.heap.tagMaps, h.tagMaps[f.tags])]
        h2 == [h1 EXCEPT !.attrMaps = Append(h1.attrMaps, h.attrMaps[f.attrs])]
    IN  [heap |-> h2,
         f |-> [time |-> ZeroTime, msg |-> f.msg, userMsg |-> f.userMsg, domain |-> "",
                code |-> f.code, exitCode |-> f.exitCode,
                httpStatusCode |-> f.httpStatusCode,
                causes |-> c.hdr, associated |-> a.hdr,
                tags |-> Len(h1.tagMaps), attrs |-> Len(h2.attrMaps),
                spanId |-> "", traceId |-> ""]]

\* ------------------------------------------------------------ message.go: Builder

\* New(): a builder over newFail(""), whose maps are new.
New(h) ==
    LET h1 == MakeTagMap(h)
        h2 == MakeAttrMap(h1)
    IN  [heap |-> h2, b |-> newFail("", Len(h1.tagMaps), Len(h2.attrMaps))]

\* The loop of CauseSlice over errs[i..].
RECURSIVE CauseSliceLoop(_, _, _, _)
CauseSliceLoop(h, b, errs, i) ==
    IF i > Len(errs) THEN [heap |-> h, b |-> b]
    ELSE IF errs[i] # Nil
         THEN LET r == GoAppend(h, b.causes, errs[i])
              IN  CauseSliceLoop(r.heap, [b EXCEPT !.causes = r.hdr], errs, i + 1)
         ELSE CauseSliceLoop(h, b, errs, i + 1)

BuilderCauseSlice(h, b, errs) == CauseSliceLoop(h, b, errs, 1)

\* The loop of AssociateSlice over errs[i..].
RECURSIVE AssociateSliceLoop(_, _, _, _)
AssociateSliceLoop(h, b, errs, i) ==
    IF i > Len(errs) THEN [heap |-> h, b |-> b]
    ELSE IF errs[i] # Nil
         THEN LET r == GoAppend(h, b.associated, errs[i])
              IN  AssociateSliceLoop(r.heap, [b EXCEPT !.associated = r.hdr], errs, i + 1)
         ELSE AssociateSliceLoop(h, b, errs, i + 1)

BuilderAssociateSlice(h, b, errs) == AssociateSliceLoop(h, b, errs, 1)

\* TagSlice: every non-empty tag is stored into the map b.tags refers to.
BuilderTagSlice(h, b, tags) ==
    [heap |-> [h EXCEPT !.tagMaps[b.tags] = @ \cup {t \in Elems(tags) : t # ""}],
     b |-> b]

\* AttributeMap storing only the keys the map does not hold yet.
BuilderAttributeMapFirstWins(h, b, attrs) ==
    LET old == h.attrMaps[b.attrs]
        kept == {k \in DOMAIN attrs : k # "" /\ attrs[k] # Nil /\ k \notin DOMAIN old}
    IN  [heap |-> [h EXCEPT !.attrMaps[b.attrs] =
                      [k \in DOMAIN old \cup kept |-> IF k \in kept THEN attrs[k] ELSE old[k]]],
         b |-> b]

\* AttributeMap: every entry with a non-empty key and a non-nil value is
\* stored into the map b.attrs refers to.
BuilderAttributeMap(h, b, attrs) ==
    LET kept == {k \in DOMAIN attrs : k # "" /\ attrs[k] # Nil}
        old == h.attrMaps[b.attrs]
    IN  [heap |-> [h EXCEPT !.attrMaps[b.attrs] =
                      [k \in DOMAIN old \cup kept |-> IF k \in kept THEN attrs[k] ELSE old[k]]],
         b |-> b]

BuilderCode(b, code) == IF code # "" THEN [b EXCEPT !.code = code] ELSE b

\* ExitCode taking every exit code that is not negative.
BuilderExitCodeAcceptsZero(b, exitCode) ==
    IF exitCode >= 0 THEN [b EXCEPT !.exitCode = exitCode] ELSE b

BuilderExitCode(b, exitCode) ==
    IF exitCode > 0 THEN [b EXCEPT !.exitCode = exitCode] ELSE b

BuilderHttpStatusCode(b, httpStatusCode) ==
    IF httpStatusCode >= 400 /\ httpStatusCode < 600
    THEN [b EXCEPT !.httpStatusCode = httpStatusCode] ELSE b

BuilderDomain(b, domain) == IF domain # "" THEN [b EXCEPT !.domain = domain] ELSE b

BuilderUserMsg(b, userMsg) == IF userMsg # "" THEN [b EXCEPT !.userMsg = userMsg] ELSE b

\* Time(t), called at the instant now.
BuilderTime(b, t, now) == IF t # ZeroTime /\ now > t THEN [b EXCEPT !.time = t] ELSE b

\* Msg(msg), called at the instant now: the builder as a Fail.
BuilderMsg(b, msg, now) ==
    LET b1 == [b EXCEPT !.msg = IF msg # "" THEN msg ELSE EmptyMessage]
    IN  IF b1.time = ZeroTime \/ b1.time > now THEN [b1 EXCEPT !.time = now] ELSE b1

\* err.(Fail): the error is a Fail record.
IsFail(err) == "msg" \in DOMAIN err

\* From(err) for a non-nil err: the clone of a Fail, else a Fail of the nine
\* facets extracted from err.  The slices and the attribute map an error of
\* another type returns are taken to be storage of their own.
From(h, err) ==
    IF IsFail(err) THEN LET r == Clone(h, err) IN [heap |-> r.heap, b |-> r.f]
    ELSE LET c  == AllocSlice(h, Causes(err))
             a  == AllocSlice(c.heap, Associated(err))
             h1 == [a.heap EXCEPT !.tagMaps =
                       Append(a.heap.tagMaps, UNION {Elems(t.s) : t \in Tags(err)})]
             h2 == [h1 EXCEPT !.attrMaps = Append(h1.attrMaps, Attributes(err).kv)]
         IN  [heap |-> h2,
              b |-> [time |-> ZeroTime, msg |-> Message(err),
                     userMsg |-> UserMessage(err), domain |-> "",
                     code |-> Code(err), exitCode |-> ExitCode(err),
                     httpStatusCode |-> HttpStatusCode(err),
                     causes |-> c.hdr, associated |-> a.hdr,
                     tags |-> Len(h1.tagMaps), attrs |-> Len(h2.attrMaps),
                     spanId |-> "", traceId |-> ""]]

\* asFail: the builder as a Fail, as it is.
asFail(b) == b

\* trace.TraceIDFromHex / trace.SpanIDFromHex accept the lower-case hex ids
\* of the full length that are not all zeros; two ids stand for them here.
ValidTraceIds == {"0af7651916cd43dd8448eb211c80319c"}
ValidSpanIds == {"b7ad6b7169203331"}

BuilderTraceId(b, traceId) ==
    IF traceId \in ValidTraceIds THEN [b EXCEPT !.traceId = traceId] ELSE b

BuilderSpanId(b, spanId) ==
    IF spanId \in ValidSpanIds THEN [b EXCEPT !.spanId = spanId] ELSE b

\* A context.Context by what TagsFromContext, AttributesFromContext,
\* SpanIdFromContext and TraceIdFromContext return for it.
Background ==
    [tags |-> NilSlice, attrs |-> NilMap,
     spanId |-> "0000000000000000", traceId |-> "00000000000000000000000000000000"]
RequestCtx ==
    [tags |-> Slice(<<"api">>), attrs |-> Map("user_id" :> [any |-> "123"]),
     spanId |-> "b7ad6b7169203331", traceId |-> "0af7651916cd43dd8448eb211c80319c"]
CtxArgs == {Background, RequestCtx}

\* Builder.Context(ctx)
BuilderContext(h, b, ctx) ==
    LET r1 == IF ~ctx.tags.isNil THEN BuilderTagSlice(h, b, ctx.tags.s)
              ELSE [heap |-> h, b |-> b]
        r2 == IF DOMAIN ctx.attrs.kv # {} THEN BuilderAttributeMap(r1.heap, r1.b, ctx.attrs.kv)
              ELSE r1
        b3 == IF ctx.spanId # "" THEN BuilderSpanId(r2.b, ctx.spanId) ELSE r2.b
        b4 == IF ctx.traceId # "" THEN BuilderTraceId(b3, ctx.traceId) ELSE b3
    IN  [heap |-> r2.heap, b |-> b4]

\* NewC(ctx): a new builder with the context applied.
NewC(h, ctx) == LET r == New(h) IN BuilderContext(r.heap, r.b, ctx)

\* fmt.Sprintf(format, args...) on the formats the callers use.
FormatArgs == {<<"", <<>> >>, <<"read failed", <<>> >>, <<"read %q failed", <<"a.txt">> >>}
Sprintf(format, args) ==
    CASE format = "read %q failed" /\ args = <<"a.txt">> -> "read \"a.txt\" failed"
      [] args = <<>> -> format

\* Builder.Msgf(format, args...)
BuilderMsgf(b, format, args, now) == BuilderMsg(b, Sprintf(format, args), now)

\* ------------------------------------------------------------ shortcut.go

\* Each shortcut yields the error it returns: nil, or the new Fail read
\* through the heap it was built in.
Wrap(h, err, msg, now) ==
    IF err = Nil THEN Nil
    ELSE LET r == New(h)
             c == BuilderCauseSlice(r.heap, r.b, <<err>>)
         IN  FailAsError(c.heap, BuilderMsg(c.b, msg, now))

WrapC(h, ctx, err, msg, now) ==
    IF err = Nil THEN Nil
    ELSE LET r == NewC(h, ctx)
             c == BuilderCauseSlice(r.heap, r.b, <<err>>)
         IN  FailAsError(c.heap, BuilderMsg(c.b, msg, now))

Wrapf(h, err, format, args, now) ==
    LET r == New(h)
        c == BuilderCauseSlice(r.heap, r.b, <<err>>)
    IN  FailAsError(c.heap, BuilderMsgf(c.b, format, args, now))

WrapCf(h, ctx, err, format, args, now) ==
    LET r == NewC(h, ctx)
        c == BuilderCauseSlice(r.heap, r.b, <<err>>)
    IN  FailAsError(c.heap, BuilderMsgf(c.b, format, args, now))

WrapMany(h, msg, errs, now) ==
    IF Len(errs) = 0 THEN Nil
    ELSE LET r == New(h)
             c == BuilderCauseSlice(r.heap, r.b, errs)
         IN  FailAsError(c.heap, BuilderMsg(c.b, msg, now))

\* ------------------------------------------------------------ unnamed/part_010 (PrinterOptions), printer/json.go

\* DefaultOptions(): every facet toggle is on; CauseDepth is left at zero.
DefaultOptions ==
    [Time |-> TRUE, Associated |-> TRUE, Causes |-> TRUE, Tags |-> TRUE,
     Attributes |-> TRUE, Code |-> TRUE, Domain |-> TRUE, ExitCode |-> TRUE,
     HttpStatusCode |-> TRUE, UserMsg |-> TRUE, TraceId |-> TRUE, SpanId |-> TRUE,
     CauseDepth |-> 0]

\* data[key] = value when the toggle is on and the value is present.
JsonEntry(toggle, present, key, value) ==
    IF toggle /\ present THEN key :> value ELSE <<>>

\* The map printJson marshals for a non-nil err whose Tags are tags.
JsonData(err, o, tags) ==
    ("msg" :> Message(err))
    @@ JsonEntry(o.Time, Time(err) # ZeroTime, "time", [rfc3339 |-> Time(err)])
    @@ JsonEntry(o.Associated, Len(Associated(err).s) > 0, "associated", Associated(err))
    @@ JsonEntry(o.Causes, Len(Causes(err).s) > 0, "causes", Causes(err))
    @@ JsonEntry(o.Tags, Len(tags.s) > 0, "tags", tags)
    @@ JsonEntry(o.Attributes, DOMAIN Attributes(err).kv # {}, "attributes", Attributes(err))
    @@ JsonEntry(o.Code, Code(err) # "", "code", Code(err))
    @@ JsonEntry(o.Domain, Domain(err) # "", "domain", Domain(err))
    @@ JsonEntry(o.ExitCode, ExitCode(err) > 0, "exit_code", ExitCode(err))
    @@ JsonEntry(o.HttpStatusCode, HttpStatusCode(err) > 0,
                 "http_status_code", HttpStatusCode(err))
    @@ JsonEntry(o.UserMsg, UserMessage(err) # "", "user_msg", UserMessage(err))
    @@ JsonEntry(o.TraceId, TraceId(err) # "", "trace_id", TraceId(err))
    @@ JsonEntry(o.SpanId, SpanId(err) # "", "span_id", SpanId(err))

\* What printJson(err, opts) may print: "null" for nil, else the object of
\* the map it fills (one per order in which Tags collects the tags).
printJson(err, o) ==
    IF err = Nil THEN {"null"} ELSE {JsonData(err, o, tags) : tags \in Tags(err)}

\* ------------------------------------------------------------ printer_pretty.go

\* printPretty(sb, depth, err, opts) by what it writes to sb: the lines, each
\* with its indentation depth and its text.
RECURSIVE printPretty(_, _, _)
RECURSIVE PrettyCausesLoop(_, _, _, _)

\* The loop of printPretty over causes[i..], printed at depth.
PrettyCausesLoop(causes, i, depth, opts) ==
    IF i > Len(causes) THEN <<>>
    ELSE printPretty(depth, causes[i], opts) \o PrettyCausesLoop(causes, i + 1, depth, opts)

printPretty(depth, err, opts) ==
    <<[indent |-> depth, text |-> Message(err)]>>
    \o (IF opts.Causes /\ (opts.CauseDepth = 0 \/ depth <= opts.CauseDepth)
        THEN PrettyCausesLoop(Causes(err).s, 1, depth + 1, opts)
        ELSE <<>>)

\* ------------------------------------------------------------ input errors

\* The values the capability methods of the input errors return.
ExitVals == {-1, 3}
CodeVals == {DefaultErrorCode, "E_A", "E_B"}
HttpVals == {404, 503}

\* "The method is absent" ({}) or "it returns v" ({v}).
Opt(S) == {{}} \cup {{v} : v \in S}
Meth(name, opt) == IF opt = {} THEN NoMethods ELSE name :> (CHOOSE v \in opt : TRUE)

\* Errors without causes: every combination of an exit code and a code
\* capability, and errors with an HTTP status only.
SevLeaves ==
    {E("leaf", Meth("ErrorExitCode", x) @@ Meth("ErrorCode", c)) :
        x \in Opt(ExitVals), c \in Opt(CodeVals)}
HttpLeaves == {E("leaf", "ErrorHttpStatusCode" :> h) : h \in HttpVals}

\* Errors of other conventions wrapping one error (or nil) behind Unwrap().
Wrapped ==
    {E("wrap", "Unwrap" :> c) :
        c \in {Nil,
               E("leaf", ("ErrorExitCode" :> 3) @@ ("ErrorCode" :> "E_B")),
               E("leaf", "ErrorHttpStatusCode" :> 503)}}

\* What a cause list of an input error may hold.
CauseVals == SevLeaves \cup HttpLeaves \cup Wrapped \cup {Nil}

RECURSIVE SeqsUpTo(_, _)
SeqsUpTo(S, n) ==
    IF n = 0 THEN {<<>>}
    ELSE LET shorter == SeqsUpTo(S, n - 1)
         IN  shorter \cup {Append(q, x) : q \in {r \in shorter : Len(r) = n - 1}, x \in S}

CauseLists == SeqsUpTo(CauseVals, MaxCauses)
CauseSlices == {NilSlice} \cup {Slice(q) : q \in CauseLists}

\* An error all of whose capabilities differ from those of every CauseVals
\* error: the result of a shape that must not be looked at.
Decoy ==
    E("decoy", ("ErrorExitCode" :> 7) @@ ("ErrorCode" :> "E_DECOY")
                 @@ ("ErrorHttpStatusCode" :> 599))

\* The capabilities of the inspected error itself.
TopCaps ==
    {NoMethods,
     "ErrorExitCode" :> 2,
     "ErrorCode" :> "E_TOP",
     "ErrorHttpStatusCode" :> 404,
     ("ErrorExitCode" :> 2) @@ ("ErrorCode" :> "E_TOP") @@ ("ErrorHttpStatusCode" :> 404)}

\* The cause shapes an input error has: the first one carries the cause
\* list, the later ones carry the decoy.  (A Go type has one Unwrap method.)
ShapeSets ==
    {<<>>,
     <<"ErrorCauses">>, <<"ErrorCauses", "UnwrapSlice", "Cause">>,
     <<"ErrorCauses", "Unwrap", "Cause">>,
     <<"UnwrapSlice">>, <<"UnwrapSlice", "Cause">>,
     <<"Unwrap">>, <<"Unwrap", "Cause">>,
     <<"Cause">>}

IsSliceShape(shape) == shape \in {"ErrorCauses", "UnwrapSlice"}

ShapeMethods(shapes, sl) ==
    [k \in {shapes[i] : i \in 1..Len(shapes)} |->
        IF k = shapes[1]
        THEN (IF IsSliceShape(k) THEN sl ELSE sl.s[1])
        ELSE (IF IsSliceShape(k) THEN Slice(<<Decoy>>) ELSE Decoy)]

\* The non-nil errors handed to ExitCode, HttpStatusCode, Code and Causes:
\* the error with the capabilities caps and the cause shapes, the first of
\* which carries the cause list sl.
ResolveInputOf(caps, shapes, sl) ==
    IF shapes = <<>> THEN E("top", caps) ELSE E("top", caps @@ ShapeMethods(shapes, sl))

\* The inputs drawn: every capability set alone and over an ErrorCauses
\* list, and every shape set without capabilities of its own (a single
\* error behind Unwrap() or Cause()).
ValidResolveInput(caps, shapes, sl) ==
    \/ shapes = <<>> /\ sl = NilSlice
    \/ shapes = <<"ErrorCauses">>
    \/ /\ caps = NoMethods
       /\ shapes # <<>>
       /\ IsSliceShape(shapes[1]) \/ (~sl.isNil /\ Len(sl.s) = 1)

\* The errors handed to the other extraction functions.
FacetInputs ==
    {Nil,
     E("boom", NoMethods),
     E("", NoMethods),
     E("boom: eof", ("ErrorMessage" :> "boom") @@ ("ErrorUserMessage" :> "try again")),
     E("boom", ("ErrorDomain" :> "database") @@ ("ErrorTime" :> 5)),
     E("boom", ("ErrorTraceId" :> "0af7") @@ ("ErrorSpanId" :> "b7ad")),
     E("boom", "ErrorAssociated" :> Slice(<<E("leaf", NoMethods)>>)),
     E("boom", "ErrorAssociated" :> NilSlice),
     E("boom", "ErrorTags" :> Slice(<<"net", "db", "net">>)),
     E("boom", "ErrorTags" :> Slice(<<"net">>)),
     E("boom", "ErrorTags" :> NilSlice),
     E("boom", "ErrorAttributes" :> Map("user_id" :> [any |-> "123"])),
     E("boom", "ErrorAttributes" :> NilMap)}

\* ------------------------------------------------------------ calls

NoCall == [op |-> "none", arg |-> Nil, ret |-> 0]
Called(op, arg, ret) == [op |-> op, arg |-> arg, ret |-> ret]

CallExitCode ==
    /\ call = NoCall
    /\ \/ call' = Called("ExitCode", Nil, ExitCode(Nil))
       \/ \E caps \in TopCaps, shapes \in ShapeSets, sl \in CauseSlices :
             /\ ValidResolveInput(caps, shapes, sl)
             /\ LET err == ResolveInputOf(caps, shapes, sl)
                IN  call' = Called("ExitCode", err, ExitCode(err))
    /\ UNCHANGED <<builderVars, runVars>>

CallHttpStatusCode ==
    /\ call = NoCall
    /\ \/ call' = Called("HttpStatusCode", Nil, HttpStatusCode(Nil))
       \/ \E caps \in TopCaps, shapes \in ShapeSets, sl \in CauseSlices :
             /\ ValidResolveInput(caps, shapes, sl)
             /\ LET err == ResolveInputOf(caps, shapes, sl)
                IN  call' = Called("HttpStatusCode", err, HttpStatusCode(err))
    /\ UNCHANGED <<builderVars, runVars>>

CallCode ==
    /\ call = NoCall
    /\ \/ call' = Called("Code", Nil, Code(Nil))
       \/ \E caps \in TopCaps, shapes \in ShapeSets, sl \in CauseSlices :
             /\ ValidResolveInput(caps, shapes, sl)
             /\ LET err == ResolveInputOf(caps, shapes, sl)
                IN  call' = Called("Code", err, Code(err))
    /\ UNCHANGED <<builderVars, runVars>>

CallCauses ==
    /\ call = NoCall
    /\ \/ call' = Called("Causes", Nil, Causes(Nil))
       \/ \E caps \in TopCaps, shapes \in ShapeSets, sl \in CauseSlices :
             /\ ValidResolveInput(caps, shapes, sl)
             /\ LET err == ResolveInputOf(caps, shapes, sl)
                IN  call' = Called("Causes", err, Causes(err))
    /\ UNCHANGED <<builderVars, runVars>>

CallMessage ==
    /\ call = NoCall
    /\ \E err \in FacetInputs : call' = Called("Message", err, Message(err))
    /\ UNCHANGED <<builderVars, runVars>>

CallUserMessage ==
    /\ call = NoCall
    /\ \E err \in FacetInputs : call' = Called("UserMessage", err, UserMessage(err))
    /\ UNCHANGED <<builderVars, runVars>>

CallDomain ==
    /\ call = NoCall
    /\ \E err \in FacetInputs : call' = Called("Domain", err, Domain(err))
    /\ UNCHANGED <<builderVars, runVars>>

CallTime ==
    /\ call = NoCall
    /\ \E err \in FacetInputs : call' = Called("Time", err, Time(err))
    /\ UNCHANGED <<builderVars, runVars>>

CallTraceId ==
    /\ call = NoCall
    /\ \E err \in FacetInputs : call' = Called("TraceId", err, TraceId(err))
    /\ UNCHANGED <<builderVars, runVars>>

CallSpanId ==
    /\ call = NoCall
    /\ \E err \in FacetInputs : call' = Called("SpanId", err, SpanId(err))
    /\ UNCHANGED <<builderVars, runVars>>

CallAssociated ==
    /\ call = NoCall
    /\ \E err \in FacetInputs : call' = Called("Associated", err, Associated(err))
    /\ UNCHANGED <<builderVars, runVars>>

CallAttributes ==
    /\ call = NoCall
    /\ \E err \in FacetInputs : call' = Called("Attributes", err, Attributes(err))
    /\ UNCHANGED <<builderVars, runVars>>

CallTags ==
    /\ call = NoCall
    /\ \E err \in FacetInputs : \E ret \in Tags(err) : call' = Called("Tags", err, ret)
    /\ UNCHANGED <<builderVars, runVars>>

\* ------------------------------------------------------------ the caller's program

\* The caller holds builders and finalized errors in variables, each assigned
\* once: b is New(), every other builder is a setter applied to an assigned
\* builder, every record is Msg applied to an assigned builder.
BuilderNames == <<"b", "b1", "b2">>
RecordNames == <<"r", "r1">>
Unset == [unset |-> TRUE]
NoOrigin == "none"

Assigned(f, names) == {n \in Elems(names) : f[n] # Unset}

\* The first variable of names not assigned yet (f[n] = Unset).
HasFree(f, names) == Assigned(f, names) # Elems(names)
Free(f, names) ==
    names[CHOOSE i \in 1..Len(names) :
            /\ f[names[i]] = Unset
            /\ \A j \in 1..(i - 1) : f[names[j]] # Unset]

\* time.Now(): the clock advances with every assignment.
Now == 1 + Cardinality(Assigned(bld, BuilderNames)) + Cardinality(Assigned(rec, RecordNames))

\* The arguments of the calls.
Plain == E("eof", NoMethods)
Exit3 == E("exit 3", "ErrorExitCode" :> 3)
Val(x) == [any |-> x]

CauseArgs == {<<Exit3, Plain>>, <<Nil, Plain>>, <<Plain, Plain, Plain>>}
AssociateArgs == {<<Plain>>, <<Nil, Exit3>>}
TagArgs == {<<"net">>, <<"", "db">>}
AttributeArgs ==
    {"user_id" :> Val("123"), "user_id" :> Val("456"), ("" :> Val("x")) @@ ("k" :> Nil)}
CodeArgs == {"", "E_A"}
ExitCodeArgs == {0, -5, 2}
HttpStatusCodeArgs == {250, 404}
DomainArgs == {"", "database"}
UserMsgArgs == {"", "try again"}
TimeArgs == {ZeroTime, 1, 100}
MsgArgs == {"", "db failed"}

\* Errors of other types handed to From and the With helpers: one with
\* every capability, one with none and an empty Error() text.
Rich ==
    E("rich: eof",
      [ErrorMessage |-> "rich", ErrorUserMessage |-> "try again",
       ErrorCode |-> "E_A", ErrorExitCode |-> 3, ErrorHttpStatusCode |-> 404,
       ErrorCauses |-> Slice(<<Nil, Plain>>), ErrorAssociated |-> Slice(<<Nil>>),
       ErrorTags |-> Slice(<<"net", "", "net">>),
       ErrorAttributes |-> Map("user_id" :> Val("123")),
       ErrorTime |-> 1, ErrorDomain |-> "database",
       ErrorTraceId |-> "0af7", ErrorSpanId |-> "b7ad"])
Silent == E("", NoMethods)
FromArgs == {Rich, Silent}
WithExitCodeArgs == {0, 2}

\* dst := src.<setter>, where the setter yields the builder nb and the heap nh.
AssignBuilder(src, nb, nh, took) ==
    /\ HasFree(bld, BuilderNames)
    /\ LET dst == Free(bld, BuilderNames)
       IN  /\ bld' = [bld EXCEPT ![dst] = nb]
           /\ explicit' = [explicit EXCEPT ![dst] = explicit[src] \cup took]
           /\ origin' = [origin EXCEPT ![dst] = origin[src]]
    /\ heap' = nh
    /\ UNCHANGED <<runVars, call, rec>>

CallNew ==
    /\ HasFree(bld, BuilderNames)
    /\ LET r == New(heap)
           dst == Free(bld, BuilderNames)
       IN  /\ bld' = [bld EXCEPT ![dst] = r.b]
           /\ heap' = r.heap
           /\ explicit' = [explicit EXCEPT ![dst] = {}]
    /\ UNCHANGED <<runVars, call, rec, origin>>

CallCauseSlice ==
    \E src \in Assigned(bld, BuilderNames) : \E errs \in CauseArgs :
        LET r == BuilderCauseSlice(heap, bld[src], errs)
        IN  AssignBuilder(src, r.b, r.heap, {})

CallAssociateSlice ==
    \E src \in Assigned(bld, BuilderNames) : \E errs \in AssociateArgs :
        LET r == BuilderAssociateSlice(heap, bld[src], errs)
        IN  AssignBuilder(src, r.b, r.heap, {})

CallTagSlice ==
    \E src \in Assigned(bld, BuilderNames) : \E tags \in TagArgs :
        LET r == BuilderTagSlice(heap, bld[src], tags)
        IN  AssignBuilder(src, r.b, r.heap, {})

\* dst := src.AttributeMap(attrs); Attribute(key, value) is AttributeMap of
\* the one-entry map.
AttributeMapOf(src, attrs) ==
    LET r == BuilderAttributeMap(heap, bld[src], attrs)
    IN  AssignBuilder(src, r.b, r.heap, {})

CallAttributeMap ==
    \E src \in Assigned(bld, BuilderNames) : \E attrs \in AttributeArgs :
        AttributeMapOf(src, attrs)

CallBuilderCode ==
    \E src \in Assigned(bld, BuilderNames) : \E code \in CodeArgs :
        AssignBuilder(src, BuilderCode(bld[src], code), heap, {})

\* dst := src.ExitCode(exitCode)
ExitCodeOf(src, exitCode) ==
    AssignBuilder(src, BuilderExitCode(bld[src], exitCode), heap, {"ExitCode"})

CallBuilderExitCode ==
    \E src \in Assigned(bld, BuilderNames) : \E exitCode \in ExitCodeArgs :
        ExitCodeOf(src, exitCode)

\* dst := src.HttpStatusCode(httpStatusCode)
HttpStatusCodeOf(src, httpStatusCode) ==
    AssignBuilder(src, BuilderHttpStatusCode(bld[src], httpStatusCode), heap, {})

CallBuilderHttpStatusCode ==
    \E src \in Assigned(bld, BuilderNames) : \E httpStatusCode \in HttpStatusCodeArgs :
        HttpStatusCodeOf(src, httpStatusCode)

CallBuilderDomain ==
    \E src \in Assigned(bld, BuilderNames) : \E domain \in DomainArgs :
        AssignBuilder(src, BuilderDomain(bld[src], domain), heap, {})

CallBuilderUserMsg ==
    \E src \in Assigned(bld, BuilderNames) : \E userMsg \in UserMsgArgs :
        AssignBuilder(src, BuilderUserMsg(bld[src], userMsg), heap, {})

CallBuilderTime ==
    \E src \in Assigned(bld, BuilderNames) : \E t \in TimeArgs :
        AssignBuilder(src, BuilderTime(bld[src], t, Now), heap, {})

\* dst := From(err), err derived from the record org (or from none).
FromOf(err, org) ==
    /\ HasFree(bld, BuilderNames)
    /\ LET r == From(heap, err)
           dst == Free(bld, BuilderNames)
       IN  /\ bld' = [bld EXCEPT ![dst] = r.b]
           /\ heap' = r.heap
           /\ explicit' = [explicit EXCEPT ![dst] =
                               IF org = NoOrigin THEN {} ELSE explicit[org]]
           /\ origin' = [origin EXCEPT ![dst] = org]
    /\ UNCHANGED <<runVars, call, rec>>

CallFrom ==
    \/ \E n \in Assigned(rec, RecordNames) : FromOf(rec[n], n)
    \/ \E e \in FromArgs : FromOf(e, NoOrigin)

\* dst := WithExitCode(err, exitCode) for a non-nil err: err itself when
\* exitCode <= 0, else From(err).ExitCode(exitCode).asFail().  The caller
\* keeps the result in a record variable when it is a Fail.
WithExitCodeOf(err, org, exitCode) ==
    /\ HasFree(rec, RecordNames)
    /\ LET dst == Free(rec, RecordNames)
       IN  IF exitCode <= 0
           THEN IF IsFail(err)
                THEN /\ rec' = [rec EXCEPT ![dst] = err]
                     /\ explicit' = [explicit EXCEPT ![dst] = explicit[org]]
                     /\ origin' = [origin EXCEPT ![dst] = origin[org]]
                     /\ UNCHANGED <<runVars, call, heap, bld>>
                ELSE UNCHANGED vars
           ELSE LET r == From(heap, err)
                IN  /\ rec' = [rec EXCEPT ![dst] = asFail(BuilderExitCode(r.b, exitCode))]
                    /\ heap' = r.heap
                    /\ explicit' = [explicit EXCEPT ![dst] =
                           (IF org = NoOrigin THEN {} ELSE explicit[org]) \cup {"ExitCode"}]
                    /\ origin' = [origin EXCEPT ![dst] = org]
                    /\ UNCHANGED <<runVars, call, bld>>

CallWithExitCode ==
    \E exitCode \in WithExitCodeArgs :
        \/ \E n \in Assigned(rec, RecordNames) : WithExitCodeOf(rec[n], n, exitCode)
        \/ \E e \in FromArgs : WithExitCodeOf(e, NoOrigin, exitCode)

\* dst := src.Msg(msg)
MsgOf(src, msg) ==
    /\ HasFree(rec, RecordNames)
    /\ LET dst == Free(rec, RecordNames)
       IN  /\ rec' = [rec EXCEPT ![dst] = BuilderMsg(bld[src], msg, Now)]
           /\ explicit' = [explicit EXCEPT ![dst] = explicit[src]]
           /\ origin' = [origin EXCEPT ![dst] = origin[src]]
    /\ UNCHANGED <<runVars, call, heap, bld>>

CallMsg ==
    \E src \in Assigned(bld, BuilderNames) : \E msg \in MsgArgs : MsgOf(src, msg)

\* The backing array the slice returned by an accessor of the Fail f refers
\* to: ErrorCauses returns f.causes itself; ErrorAssociated, ErrorTags and
\* ErrorAttributes return a new collection (0: storage of the caller's own).
ReturnedArray(f, accessor) == IF accessor = "Causes" THEN f.causes.arr ELSE 0

\* How many elements the collection an accessor returns for f holds.
ReturnedLen(h, f, accessor) ==
    CASE accessor = "Causes" -> f.causes.len
      [] accessor = "Associated" -> f.associated.len
      [] accessor = "Tags" -> Cardinality(h.tagMaps[f.tags])
      [] accessor = "Attributes" -> Cardinality(DOMAIN h.attrMaps[f.attrs])

Accessors == {"Causes", "Associated", "Tags", "Attributes"}

\* cs := Causes(r) (or Associated, Tags, Attributes); cs[0] = x
\* The caller overwrites the first element of a collection an accessor
\* returned for a record.
OverwriteReturned ==
    \E n \in Assigned(rec, RecordNames) : \E accessor \in Accessors :
        /\ ReturnedLen(heap, rec[n], accessor) >= 1
        /\ LET a == ReturnedArray(rec[n], accessor)
           IN  heap' = IF a = 0 THEN heap ELSE [heap EXCEPT !.arrays[a][1] = Plain]
        /\ UNCHANGED <<runVars, call, bld, rec, explicit, origin>>

\* The caller has made b := New().
Init ==
    /\ call = NoCall
    /\ heap = New(EmptyHeap).heap
    /\ bld = [n \in Elems(BuilderNames) |-> IF n = "b" THEN New(EmptyHeap).b ELSE Unset]
    /\ rec = [n \in Elems(RecordNames) |-> Unset]
    /\ explicit = [n \in Elems(BuilderNames) \cup Elems(RecordNames) |-> {}]
    /\ origin = [n \in Elems(BuilderNames) \cup Elems(RecordNames) |-> NoOrigin]
    /\ graph = <<>>
    /\ stack = <<>>

Next ==
    \/ CallNew \/ CallCauseSlice \/ CallAssociateSlice \/ CallTagSlice
    \/ CallAttributeMap \/ CallBuilderCode \/ CallBuilderExitCode
    \/ CallBuilderHttpStatusCode \/ CallBuilderDomain \/ CallBuilderUserMsg
    \/ CallBuilderTime \/ CallMsg \/ OverwriteReturned
    \/ CallFrom \/ CallWithExitCode

Spec == Init /\ [][Next]_vars

\* ------------------------------------------------------------ shortcut calls

\* The errors handed to the wrap shortcuts.
WrapArgs == {Nil, Plain, Exit3}
WrapManyArgs == {<<>>, <<Nil>>, <<Plain, Exit3>>}

CallWrap ==
    /\ call = NoCall
    /\ \E err \in WrapArgs : \E msg \in MsgArgs :
          call' = Called("Wrap", err, Wrap(heap, err, msg, Now))
    /\ UNCHANGED <<builderVars, runVars>>

CallWrapC ==
    /\ call = NoCall
    /\ \E err \in WrapArgs : \E msg \in MsgArgs : \E ctx \in CtxArgs :
          call' = Called("WrapC", err, WrapC(heap, ctx, err, msg, Now))
    /\ UNCHANGED <<builderVars, runVars>>

CallWrapf ==
    /\ call = NoCall
    /\ \E err \in WrapArgs : \E fa \in FormatArgs :
          call' = Called("Wrapf", err, Wrapf(heap, err, fa[1], fa[2], Now))
    /\ UNCHANGED <<builderVars, runVars>>

CallWrapCf ==
    /\ call = NoCall
    /\ \E err \in WrapArgs : \E fa \in FormatArgs : \E ctx \in CtxArgs :
          call' = Called("WrapCf", err, WrapCf(heap, ctx, err, fa[1], fa[2], Now))
    /\ UNCHANGED <<builderVars, runVars>>

CallWrapMany ==
    /\ call = NoCall
    /\ \E errs \in WrapManyArgs : \E msg \in MsgArgs :
          call' = Called("WrapMany", Slice(errs), WrapMany(heap, msg, errs, Now))
    /\ UNCHANGED <<builderVars, runVars>>

\* ------------------------------------------------------------ printer calls

\* Errors nested three levels deep, each level with a text of its own.
Depth3 == E("c3", NoMethods)
Depth2 == E("c2", "Unwrap" :> Depth3)
Depth1 == E("c1", "ErrorCauses" :> Slice(<<Depth2, Plain>>))
Nested == E("top", "ErrorCauses" :> Slice(<<Depth1, Exit3>>))
PrettyInputs == {Plain, Depth2, Depth1, Nested}

\* PrintCauseDepth(d) and PrintCauses(c) applied to DefaultOptions().
CauseDepthArgs == {0, 1, 2}
PrettyOptions ==
    {[DefaultOptions EXCEPT !.CauseDepth = d, !.Causes = c] :
        d \in CauseDepthArgs, c \in BOOLEAN}

\* PrettyPrinter(opts...).Print(err) for a non-nil err.
CallPrintPretty ==
    /\ call = NoCall
    /\ \E err \in PrettyInputs : \E opts \in PrettyOptions :
          call' = Called("printPretty", err,
                         [opts |-> opts, lines |-> printPretty(0, err, opts)])
    /\ UNCHANGED <<builderVars, runVars>>

\* The extraction functions and the shortcuts applied once to an input.
ExtractNext ==
    \/ CallExitCode \/ CallHttpStatusCode \/ CallCode \/ CallCauses
    \/ CallMessage \/ CallUserMessage \/ CallDomain \/ CallTime
    \/ CallTraceId \/ CallSpanId \/ CallAssociated \/ CallAttributes \/ CallTags
    \/ CallWrap \/ CallWrapC \/ CallWrapf \/ CallWrapCf \/ CallWrapMany
    \/ CallPrintPretty

ExtractSpec == Init /\ [][ExtractNext]_vars

\* ------------------------------------------------------------ records as causes

\* rec := src.Cause(errs...).Msg(msg), the two calls chained; among the
\* errors may be records the caller holds.
CauseMsgOf(src, errs, msg) ==
    /\ HasFree(rec, RecordNames)
    /\ LET r == BuilderCauseSlice(heap, bld[src], errs)
           dst == Free(rec, RecordNames)
       IN  /\ rec' = [rec EXCEPT ![dst] = BuilderMsg(r.b, msg, Now)]
           /\ heap' = r.heap
           /\ explicit' = [explicit EXCEPT ![dst] = explicit[src]]
           /\ origin' = [origin EXCEPT ![dst] = origin[src]]
    /\ UNCHANGED <<runVars, call, bld>>

CallCauseMsg ==
    \E src \in Assigned(bld, BuilderNames) : \E msg \in MsgArgs :
        \/ CauseMsgOf(src, <<Plain>>, msg)
        \/ \E n \in Assigned(rec, RecordNames) : CauseMsgOf(src, <<rec[n]>>, msg)

\* Builders extended with causes and finalized, records among the causes.
CauseNext == CallCauseSlice \/ CallCauseMsg \/ CallMsg

CauseSpec == Init /\ [][CauseNext]_vars

\* ------------------------------------------------------------ calls in progress

\* Error values of pointer types form a graph: graph[n] is the object at
\* the address n, with the capabilities it has (none: {}, one value: {v})
\* and the addresses ErrorCauses() returns; the address 0 is the nil error.
NumNodes == 3
MaxStack == NumNodes + 1

\* The object at address i of the graph with the chain 1 -> 2 -> ... ->
\* NumNodes, the capabilities at codeAt, a nil cause first at nilAt, an edge
\* from skipAt to skipAt + 2, and the edge back (<<from, to>>, or none).
ObjectAt(i, codeAt, nilAt, skipAt, back) ==
    [code |-> IF codeAt = i THEN {"E_A"} ELSE {},
     exit |-> IF codeAt = i THEN {3} ELSE {},
     http |-> IF codeAt = i THEN {404} ELSE {},
     causes |-> (IF nilAt = i THEN <<0>> ELSE <<>>)
                \o (IF i < NumNodes THEN <<i + 1>> ELSE <<>>)
                \o (IF skipAt = i THEN <<i + 2>> ELSE <<>>)
                \o (IF back # <<>> /\ back[1] = i THEN <<back[2]>> ELSE <<>>)]

BackEdges == {<<>>} \cup {<<b, t>> : b \in 1..NumNodes, t \in 1..NumNodes}

ErrorGraphs ==
    {[i \in 1..NumNodes |-> ObjectAt(i, codeAt, nilAt, skipAt, back)] :
        codeAt \in 0..NumNodes, nilAt \in 0..NumNodes,
        skipAt \in 0..(NumNodes - 2), back \in {e \in BackEdges : e = <<>> \/ e[2] <= e[1]}}

Functions == {"Code", "ExitCode", "HttpStatusCode"}

\* Causes(err) for the error at the address n.
CausesAt(g, n) == IF n = 0 THEN <<>> ELSE g[n].causes

\* The frame of a call of fn on the error at the address err.
NewFrame(fn, err) ==
    [fn |-> fn, err |-> err, pc |-> "entry", i |-> 1,
     maxCode |-> DefaultErrorCode, maxExitCode |-> 0, maxHttpStatusCode |-> 0,
     causeExitCode |-> 0, retInt |-> 0, retString |-> ""]

\* return v, for the int v of ExitCode and HttpStatusCode and for the string
\* v of Code.
ReturnInt(f, v) == [f EXCEPT !.pc = "return", !.retInt = v]
ReturnString(f, v) == [f EXCEPT !.pc = "return", !.retString = v]

\* The function up to its loop: the nil check and the capability check.
EntryOf(g, f) ==
    CASE f.fn = "Code" ->
           IF f.err = 0 THEN ReturnString(f, "")
           ELSE IF g[f.err].code # {} THEN ReturnString(f, CHOOSE v \in g[f.err].code : TRUE)
           ELSE [f EXCEPT !.pc = "loop", !.maxCode = DefaultErrorCode, !.maxExitCode = 0]
      [] f.fn = "ExitCode" ->
           IF f.err = 0 THEN ReturnInt(f, 0)
           ELSE IF g[f.err].exit # {} THEN ReturnInt(f, CHOOSE v \in g[f.err].exit : TRUE)
           ELSE [f EXCEPT !.pc = "loop", !.maxExitCode = DefaultExitCode]
      [] f.fn = "HttpStatusCode" ->
           IF f.err = 0 THEN ReturnInt(f, 200)
           ELSE IF g[f.err].http # {} THEN ReturnInt(f, CHOOSE v \in g[f.err].http : TRUE)
           ELSE [f EXCEPT !.pc = "loop", !.maxHttpStatusCode = DefaultHttpStatusCode]

\* One iteration of the loop of ExitCode: the cause is probed, not resolved.
ExitCodeIteration(g, f) ==
    IF f.i > Len(CausesAt(g, f.err)) THEN ReturnInt(f, f.maxExitCode)
    ELSE LET cause == CausesAt(g, f.err)[f.i]
         IN  IF cause # 0 /\ g[cause].exit # {}
                  /\ (CHOOSE v \in g[cause].exit : TRUE) > f.maxExitCode
             THEN [f EXCEPT !.i = f.i + 1, !.maxExitCode = CHOOSE v \in g[cause].exit : TRUE]
             ELSE [f EXCEPT !.i = f.i + 1]

\* One iteration of the loop of HttpStatusCode.
HttpStatusCodeIteration(g, f) ==
    IF f.i > Len(CausesAt(g, f.err)) THEN ReturnInt(f, f.maxHttpStatusCode)
    ELSE LET cause == CausesAt(g, f.err)[f.i]
         IN  IF cause # 0 /\ g[cause].http # {}
                  /\ (CHOOSE v \in g[cause].http : TRUE) > f.maxHttpStatusCode
             THEN [f EXCEPT !.i = f.i + 1,
                            !.maxHttpStatusCode = CHOOSE v \in g[cause].http : TRUE]
             ELSE [f EXCEPT !.i = f.i + 1]

\* The loop body of Code after Code(cause) returned causeCode, staying at
\* the same cause.
CodeAfterCauseStays(f, causeCode) ==
    IF f.causeExitCode > f.maxExitCode
    THEN [f EXCEPT !.pc = "loop", !.maxExitCode = f.causeExitCode, !.maxCode = causeCode]
    ELSE IF f.maxCode = DefaultErrorCode /\ causeCode # DefaultErrorCode
    THEN [f EXCEPT !.pc = "loop", !.maxCode = causeCode]
    ELSE [f EXCEPT !.pc = "loop"]

\* The loop body of Code after Code(cause) returned causeCode; the loop
\* goes on with the next cause.
CodeAfterCause(f, causeCode) ==
    IF f.causeExitCode > f.maxExitCode
    THEN [f EXCEPT !.pc = "loop", !.i = f.i + 1,
                   !.maxExitCode = f.causeExitCode, !.maxCode = causeCode]
    ELSE IF f.maxCode = DefaultErrorCode /\ causeCode # DefaultErrorCode
    THEN [f EXCEPT !.pc = "loop", !.i = f.i + 1, !.maxCode = causeCode]
    ELSE [f EXCEPT !.pc = "loop", !.i = f.i + 1]

Top == stack[Len(stack)]
SetTop(f) == [stack EXCEPT ![Len(stack)] = f]

\* Code(err), ExitCode(err) or HttpStatusCode(err) is called on the error
\* at the address root of some graph (or on nil).
StartCall ==
    /\ call = NoCall /\ stack = <<>> /\ graph = <<>>
    /\ \E g \in ErrorGraphs : \E fn \in Functions : \E root \in {0, 1} :
          /\ graph' = g
          /\ stack' = <<NewFrame(fn, root)>>
    /\ UNCHANGED <<call, builderVars>>

EnterFunction ==
    /\ stack # <<>> /\ Top.pc = "entry"
    /\ stack' = SetTop(EntryOf(graph, Top))
    /\ UNCHANGED <<call, builderVars, graph>>

ExitCodeLoopStep ==
    /\ stack # <<>> /\ Top.pc = "loop" /\ Top.fn = "ExitCode"
    /\ stack' = SetTop(ExitCodeIteration(graph, Top))
    /\ UNCHANGED <<call, builderVars, graph>>

HttpStatusCodeLoopStep ==
    /\ stack # <<>> /\ Top.pc = "loop" /\ Top.fn = "HttpStatusCode"
    /\ stack' = SetTop(HttpStatusCodeIteration(graph, Top))
    /\ UNCHANGED <<call, builderVars, graph>>

\* The head of the loop of Code: the loop ends, or ExitCode(cause) is
\* called.  A call needs room on the stack.
CodeLoopStep ==
    /\ stack # <<>> /\ Top.pc = "loop" /\ Top.fn = "Code"
    /\ IF Top.i > Len(CausesAt(graph, Top.err))
       THEN stack' = SetTop(ReturnString(Top, Top.maxCode))
       ELSE /\ Len(stack) < MaxStack
            /\ stack' = Append(SetTop([Top EXCEPT !.pc = "callExitCode"]),
                                NewFrame("ExitCode", CausesAt(graph, Top.err)[Top.i]))
    /\ UNCHANGED <<call, builderVars, graph>>

\* Code calls Code(cause).
CodeRecursion ==
    /\ stack # <<>> /\ Top.pc = "gotExitCode" /\ Top.fn = "Code"
    /\ Len(stack) < MaxStack
    /\ stack' = Append(SetTop([Top EXCEPT !.pc = "callCode"]),
                        NewFrame("Code", CausesAt(graph, Top.err)[Top.i]))
    /\ UNCHANGED <<call, builderVars, graph>>

\* A call made by Code returns into the frame of Code.
ReturnToCode ==
    /\ Len(stack) > 1 /\ Top.pc = "return"
    /\ LET caller == stack[Len(stack) - 1]
       IN  stack' = [SubSeq(stack, 1, Len(stack) - 1) EXCEPT ![Len(stack) - 1] =
                        IF caller.pc = "callExitCode"
                        THEN [caller EXCEPT !.pc = "gotExitCode",
                                            !.causeExitCode = Top.retInt]
                        ELSE CodeAfterCause(caller, Top.retString)]
    /\ UNCHANGED <<call, builderVars, graph>>

\* The call returns to the caller of the library, who holds the result.
ReturnResult ==
    /\ Len(stack) = 1 /\ Top.pc = "return"
    /\ stack' = SetTop([Top EXCEPT !.pc = "returned"])
    /\ UNCHANGED <<call, builderVars, graph>>

RunNext ==
    \/ StartCall \/ EnterFunction \/ ExitCodeLoopStep \/ HttpStatusCodeLoopStep
    \/ CodeLoopStep \/ CodeRecursion \/ ReturnToCode \/ ReturnResult

\* A call, once made, keeps running: the goroutine is scheduled.
RunSpec == Init /\ [][RunNext]_vars /\ WF_vars(RunNext)

\* ------------------------------------------------------------ properties of the extraction functions

SetMax(S) == CHOOSE x \in S : \A y \in S : y <= x

\* The error a call inspected, and its direct causes as Causes returns them.
arg == call.arg
DirectCauses == Causes(arg).s

\* The values the direct causes with the capability return.
DirectValues(method) ==
    {c.m[method] : c \in {d \in Elems(DirectCauses) : Implements(d, method)}}

C2_OwnFacetWins ==
    /\ (call.op = "ExitCode" /\ Implements(arg, "ErrorExitCode"))
        => call.ret = arg.m["ErrorExitCode"]
    /\ (call.op = "HttpStatusCode" /\ Implements(arg, "ErrorHttpStatusCode"))
        => call.ret = arg.m["ErrorHttpStatusCode"]
    /\ (call.op = "Code" /\ Implements(arg, "ErrorCode"))
        => call.ret = arg.m["ErrorCode"]

\* The error has exit code 2 and a direct cause with exit code 3.
C2_Witness ==
    /\ call.op = "ExitCode" /\ Implements(arg, "ErrorExitCode")
    /\ arg.m["ErrorExitCode"] = 2
    /\ 3 \in DirectValues("ErrorExitCode")
    /\ call.ret = 2

\* The positions of the direct causes whose resolved exit status is
\* strictly above that of every other direct cause.
StrictlyMostSevere ==
    {i \in 1..Len(DirectCauses) :
        \A j \in 1..Len(DirectCauses) :
            j # i => ExitCode(DirectCauses[i]) > ExitCode(DirectCauses[j])}

CodeCallWithoutCapability ==
    call.op = "Code" /\ arg # Nil /\ ~Implements(arg, "ErrorCode")

\* The cause list holds no nil entry and no cause whose code resolves to "".
NoNilCause == \A c \in Elems(DirectCauses) : c # Nil /\ Code(c) # ""

\* C4 as stated: when one direct cause has the strictly highest resolved
\* exit status, Code is the resolved code of that cause, whatever the other
\* causes carry (stated here for cause lists whose entries are
\* not nil and resolve to a code other than "").
C4_Original ==
    (CodeCallWithoutCapability /\ Len(DirectCauses) >= 1 /\ NoNilCause)
        => \A i \in StrictlyMostSevere : call.ret = Code(DirectCauses[i])

\* C4 as amended: when one direct cause has the strictly highest resolved
\* exit status, that status is positive and the resolved code of that cause
\* is not the default, Code is the resolved code of that cause.
C4_MostSevereNonDefaultCode ==
    (CodeCallWithoutCapability /\ Len(DirectCauses) >= 1)
        => \A i \in StrictlyMostSevere :
              (ExitCode(DirectCauses[i]) > 0 /\ Code(DirectCauses[i]) # DefaultErrorCode)
                 => call.ret = Code(DirectCauses[i])

\* The most severe cause comes second, after a cause with another code.
C4_Witness ==
    /\ CodeCallWithoutCapability
    /\ Len(DirectCauses) = 2
    /\ StrictlyMostSevere = {2}
    /\ Code(DirectCauses[1]) = "E_A"
    /\ Code(DirectCauses[2]) = "E_B"
    /\ call.ret = "E_B"

\* The positions of the direct causes whose resolved code is not the default.
NonDefaultCodes ==
    {i \in 1..Len(DirectCauses) : Code(DirectCauses[i]) # DefaultErrorCode}

\* The direct causes tie for the highest exit status, or the single most
\* severe one only yields the default code.
TieOrDefaultMostSevere ==
    \/ StrictlyMostSevere = {}
    \/ \E i \in StrictlyMostSevere : Code(DirectCauses[i]) = DefaultErrorCode

\* C5: on a tie, or when the most severe cause only yields the default
\* code, Code is the resolved code of the first cause whose resolved code is
\* not the default; so Code is the default only when no direct cause yields
\* a non-default code (stated here for cause lists whose entries are
\* not nil and resolve to a code other than "").
C5_FallsBackToFirstNonDefault ==
    (CodeCallWithoutCapability /\ NoNilCause)
        => /\ (TieOrDefaultMostSevere /\ NonDefaultCodes # {})
                => call.ret = Code(DirectCauses[SetMax({-i : i \in NonDefaultCodes}) * (-1)])
           /\ call.ret = DefaultErrorCode => NonDefaultCodes = {}

\* C6: when no entry of Causes(e) yields a non-default code (no causes, or
\* a nil entry from Unwrap()/Cause()), Code is the default code, never "".
C6_DefaultWhenNoCauseHasCode ==
    (CodeCallWithoutCapability
       /\ \A c \in Elems(DirectCauses) : c = Nil \/ Code(c) = DefaultErrorCode)
        => call.ret = DefaultErrorCode

\* C7: every extraction function returns its absent value on a nil error.
C7_NilYieldsAbsentValue ==
    (call.op # "none" /\ arg = Nil)
        => /\ call.op = "ExitCode" => call.ret = 0
           /\ call.op = "HttpStatusCode" => call.ret = 200
           /\ call.op \in {"Code", "Message", "UserMessage", "Domain", "TraceId", "SpanId"}
                => call.ret = ""
           /\ call.op \in {"Causes", "Associated", "Tags"} => call.ret = NilSlice
           /\ call.op = "Attributes" => call.ret = Map(<<>>)
           /\ call.op = "Time" => call.ret = ZeroTime

C7_Witness == call.op = "HttpStatusCode" /\ arg = Nil /\ call.ret = 200

\* The cause shapes in the order Causes probes them.
ShapeOrder == <<"ErrorCauses", "UnwrapSlice", "Unwrap", "Cause">>

\* What shape k alone contributes: a slice as it is, a single error as a
\* one-element slice.
Promoted(err, k) == IF IsSliceShape(k) THEN err.m[k] ELSE Slice(<<err.m[k]>>)

\* C8: Causes returns the result of the earliest shape the error has, with
\* nothing of a later shape, and nil when it has none.
C8_FirstShapeWins ==
    (call.op = "Causes" /\ arg # Nil)
        => /\ \A n \in 1..Len(ShapeOrder) :
                (Implements(arg, ShapeOrder[n])
                   /\ \A k \in 1..(n - 1) : ~Implements(arg, ShapeOrder[k]))
                    => call.ret = Promoted(arg, ShapeOrder[n])
           /\ (\A n \in 1..Len(ShapeOrder) : ~Implements(arg, ShapeOrder[n]))
                => call.ret = NilSlice

\* An error with both Unwrap() and Cause(), which return different errors.
C8_Witness ==
    /\ call.op = "Causes"
    /\ Implements(arg, "Unwrap") /\ Implements(arg, "Cause")
    /\ arg.m["Unwrap"] # arg.m["Cause"]
    /\ call.ret = Slice(<<arg.m["Unwrap"]>>)

\* ------------------------------------------------------------ properties of the Builder

\* What the facet accessors return for the Fail f read through the heap h.
Facets(h, f) ==
    LET err == FailAsError(h, f)
    IN  [Tags |-> Tags(err), Attributes |-> Attributes(err),
         Causes |-> Causes(err), Associated |-> Associated(err)]

\* The record n is the scenario's: message "db failed", causes exit-3 then
\* plain, and no ExitCode setter anywhere on its chain.
DbFailedScenario(n) ==
    /\ rec[n] # Unset
    /\ rec[n].msg = "db failed"
    /\ "ExitCode" \notin explicit[n]
    /\ SliceOf(heap, rec[n].causes) = Slice(<<Exit3, Plain>>)

\* C3: a Builder-built error with message "db failed", causes with exit
\* status 3 and without the capability, and no explicit exit code resolves
\* to exit code 3, the highest among its direct causes.
C3_BuiltErrorTakesCauseExitCode ==
    \A n \in Elems(RecordNames) :
        DbFailedScenario(n) => ExitCode(FailAsError(heap, rec[n])) = 3

\* A step of a setter of the Builder.
SetterStep ==
    \/ CallCauseSlice \/ CallAssociateSlice \/ CallTagSlice \/ CallAttributeMap
    \/ CallBuilderCode \/ CallBuilderExitCode \/ CallBuilderHttpStatusCode
    \/ CallBuilderDomain \/ CallBuilderUserMsg \/ CallBuilderTime

\* C9: once a record has been produced, no later builder operation changes
\* what Tags, Attributes, Causes or Associated return for it.
C9_RecordImmutable ==
    [][SetterStep =>
         \A n \in Assigned(rec, RecordNames) :
             Facets(heap', rec'[n]) = Facets(heap, rec[n])]_vars

\* C10: a setter leaves the builder it is called on observably unchanged:
\* the tags, attributes, causes and associated errors every existing
\* builder would finalize to are the same after the call as before.
C10_SetterLeavesReceiverUnchanged ==
    [][SetterStep =>
         \A n \in Assigned(bld, BuilderNames) :
             Facets(heap', bld'[n]) = Facets(heap, bld[n])]_vars

\* C11: overwriting an element of a collection that Causes, Associated,
\* Tags or Attributes returned for a record never changes what the
\* accessors return for that record afterwards.
C11_AccessorsReturnCopies ==
    [][OverwriteReturned =>
         \A n \in Assigned(rec, RecordNames) :
             Facets(heap', rec'[n]) = Facets(heap, rec[n])]_vars

\* C12: a step that makes a builder derived from the clone of a record
\* (From of the record itself, or a setter adding a tag, attribute, cause or
\* associated error on a builder of the clone's chain) never changes what
\* Tags, Attributes, Causes and Associated return for that record.
C12_CloneIndependent ==
    [][\A n \in Assigned(rec, RecordNames) : \A x \in Elems(BuilderNames) :
           (bld[x] = Unset /\ bld'[x] # Unset /\ origin'[x] = n)
              => Facets(heap', rec'[n]) = Facets(heap, rec[n])]_vars

\* A builder derived from the clone of a record has a tag and a cause the
\* record does not have.
C12_Witness ==
    \E n \in Assigned(rec, RecordNames) : \E x \in Assigned(bld, BuilderNames) :
        /\ origin[x] = n
        /\ heap.tagMaps[bld[x].tags] # heap.tagMaps[rec[n].tags]
        /\ SliceOf(heap, bld[x].causes) # SliceOf(heap, rec[n].causes)

\* What every facet accessor returns for the error err.
AllFacetsOf(err) ==
    [Message |-> Message(err), UserMessage |-> UserMessage(err), Code |-> Code(err),
     ExitCode |-> ExitCode(err), HttpStatusCode |-> HttpStatusCode(err),
     Domain |-> Domain(err), Causes |-> Causes(err), Associated |-> Associated(err),
     Tags |-> Tags(err), Attributes |-> Attributes(err), Time |-> Time(err),
     TraceId |-> TraceId(err), SpanId |-> SpanId(err)]

\* The same for the Fail f read through the heap h.
AllFacets(h, f) == AllFacetsOf(FailAsError(h, f))

\* C13: the builder From(r) derives from a record r, finalized as it is,
\* equals r on every facet accessor.
C13_FromRoundTrip ==
    [][\A n \in Assigned(rec, RecordNames) :
           FromOf(rec[n], n)
              => AllFacets(heap', asFail(bld'[Free(bld, BuilderNames)]))
                    = AllFacets(heap, rec[n])]_vars

\* C14: the builder From(e) derives from an error e of another type,
\* finalized as it is, returns for every facet accessor what that accessor
\* returns on e.
C14_FromSeedsEveryFacet ==
    [][\A e \in FromArgs :
           FromOf(e, NoOrigin)
              => AllFacets(heap', asFail(bld'[Free(bld, BuilderNames)]))
                    = AllFacetsOf(e)]_vars

\* C15: the message of a finalized record is never the empty string,
\* whether the record comes from Msg or from a With helper.
C15_MessageNeverEmpty ==
    \A n \in Assigned(rec, RecordNames) : Message(FailAsError(heap, rec[n])) # ""

\* C16: Msg("") on a builder that carries a non-empty message keeps that
\* message; the placeholder is only for a builder without a message.
C16_EmptyMsgKeepsMessage ==
    [][\A src \in Assigned(bld, BuilderNames) :
           (MsgOf(src, "") /\ bld[src].msg # "")
              => rec'[Free(rec, RecordNames)].msg = bld[src].msg]_vars

\* C17: the causes and the associated errors of every record hold no nil
\* error, also for a record seeded by From from an error of another type.
C17_NoNilCauseOrAssociated ==
    \A n \in Assigned(rec, RecordNames) :
        /\ Nil \notin Elems(Causes(FailAsError(heap, rec[n])).s)
        /\ Nil \notin Elems(Associated(FailAsError(heap, rec[n])).s)

\* C18: the tags of every record hold no empty string and no tag twice,
\* also for a record seeded by From from an error of another type.
C18_TagsWellFormed ==
    \A n \in Assigned(rec, RecordNames) :
        \A t \in Tags(FailAsError(heap, rec[n])) :
            /\ "" \notin Elems(t.s)
            /\ Cardinality(Elems(t.s)) = Len(t.s)

\* C19: Tags(e) holds no tag twice, and holds exactly the distinct tags the
\* ErrorTags capability of e returned.
C19_TagsDeduplicated ==
    (call.op = "Tags" /\ Implements(arg, "ErrorTags"))
        => /\ Cardinality(Elems(call.ret.s)) = Len(call.ret.s)
           /\ Elems(call.ret.s) = Elems(arg.m["ErrorTags"].s)

\* The capability returned "net" twice and Tags returned it once.
C19_Witness ==
    /\ call.op = "Tags"
    /\ Implements(arg, "ErrorTags")
    /\ arg.m["ErrorTags"].s = <<"net", "db", "net">>
    /\ Len(call.ret.s) = 2

\* C20: ExitCode(n) with n <= 0 and HttpStatusCode(s) with s outside
\* [400,599] yield a builder equal to the receiver in every field; a valid
\* argument changes the targeted field only; the heap is left alone.
C20_InvalidSeverityIsNoOp ==
    [][\A src \in Assigned(bld, BuilderNames) :
           /\ \A n \in ExitCodeArgs :
                ExitCodeOf(src, n)
                   => /\ heap' = heap
                      /\ bld'[Free(bld, BuilderNames)] =
                            IF n <= 0 THEN bld[src] ELSE [bld[src] EXCEPT !.exitCode = n]
           /\ \A c \in HttpStatusCodeArgs :
                HttpStatusCodeOf(src, c)
                   => /\ heap' = heap
                      /\ bld'[Free(bld, BuilderNames)] =
                            IF c < 400 \/ c > 599 THEN bld[src]
                            ELSE [bld[src] EXCEPT !.httpStatusCode = c]]_vars

\* ExitCode was called on the way to a builder that carries a cause and
\* still has the default exit code: the call had an argument <= 0.
C20_Witness ==
    \E x \in Assigned(bld, BuilderNames) :
        /\ "ExitCode" \in explicit[x]
        /\ bld[x].exitCode = DefaultExitCode
        /\ bld[x].causes.len > 0

\* The value Attributes returns for the key k of the Fail f, or Nil.
AttributeOf(h, f, k) ==
    LET kv == Attributes(FailAsError(h, f)).kv
    IN  IF k \in DOMAIN kv THEN kv[k] ELSE Nil

\* C21: after AttributeMap(attrs) (Attribute(k, v) is the one-entry map) the
\* value of every key k is attrs[k] when the call supplies k with a
\* non-empty key and a non-nil value, and else the value the receiver had
\* (none when it had none): an entry with an empty key or a nil value
\* neither overwrites nor removes nor adds anything; the same merge made
\* once more changes nothing; Msg hands the values on to the record.
C21_AttributesLastWriteWins ==
    [][\A src \in Assigned(bld, BuilderNames) :
           /\ \A attrs \in AttributeArgs :
                AttributeMapOf(src, attrs)
                   => LET dst == bld'[Free(bld, BuilderNames)]
                      IN  /\ \A k \in {"", "user_id", "k"} :
                                AttributeOf(heap', dst, k) =
                                   IF k \in DOMAIN attrs /\ k # "" /\ attrs[k] # Nil
                                   THEN attrs[k]
                                   ELSE AttributeOf(heap, bld[src], k)
                          /\ BuilderAttributeMap(heap', dst, attrs) = [heap |-> heap', b |-> dst]
           /\ \A msg \in MsgArgs :
                MsgOf(src, msg)
                   => \A k \in {"", "user_id", "k"} :
                         AttributeOf(heap', rec'[Free(rec, RecordNames)], k) =
                            AttributeOf(heap, bld[src], k)]_vars

\* A builder derived from a record whose user_id is "123" has user_id
\* "456": the later AttributeMap overwrote the value of the earlier one.
C21_Witness ==
    \E n \in Assigned(rec, RecordNames) : \E x \in Assigned(bld, BuilderNames) :
        /\ origin[x] = n
        /\ AttributeOf(heap, rec[n], "user_id") = Val("123")
        /\ AttributeOf(heap, bld[x], "user_id") = Val("456")
        /\ AttributeOf(heap, bld[x], "k") = Nil

\* C22: every record has a timestamp that is not zero and not later than
\* the present instant (so not later than the instant it was finalized),
\* whether the record comes from Msg or from a With helper.
C22_TimestampDiscipline ==
    \A n \in Assigned(rec, RecordNames) :
        /\ Time(FailAsError(heap, rec[n])) # ZeroTime
        /\ Time(FailAsError(heap, rec[n])) <= Now

\* C23: a record on whose builder Domain(d) stored a non-empty d exposes
\* the domain capability and Domain returns d for it; a record without a
\* stored domain resolves to "unknown".
C23_DomainIsExposed ==
    \A n \in Assigned(rec, RecordNames) :
        IF rec[n].domain # ""
        THEN /\ Implements(FailAsError(heap, rec[n]), "ErrorDomain")
             /\ Domain(FailAsError(heap, rec[n])) = rec[n].domain
        ELSE Domain(FailAsError(heap, rec[n])) = DomainUnknown

\* The record n is message-only: built with Msg, and no code, exit code,
\* status, domain, user message, trace id, span id, cause, associated
\* error, tag or attribute was set on the way.
MessageOnly(n) ==
    /\ rec[n] # Unset
    /\ rec[n].time # ZeroTime
    /\ rec[n].code = DefaultErrorCode /\ rec[n].exitCode = DefaultExitCode
    /\ rec[n].httpStatusCode = DefaultHttpStatusCode
    /\ rec[n].domain = "" /\ rec[n].userMsg = ""
    /\ rec[n].traceId = "" /\ rec[n].spanId = ""
    /\ rec[n].causes.len = 0 /\ rec[n].associated.len = 0
    /\ heap.tagMaps[rec[n].tags] = {} /\ heap.attrMaps[rec[n].attrs] = <<>>

\* C24: the JSON projection of a message-only record under the default
\* options is an object whose keys are exactly msg and time.
C24_JsonOfMessageOnlyError ==
    \A n \in Elems(RecordNames) :
        MessageOnly(n) =>
            \A data \in printJson(FailAsError(heap, rec[n]), DefaultOptions) :
                DOMAIN data = {"msg", "time"}

\* The maps and the slice elements of the heap h that reading the
\* collections of the Fail (or Builder) f touches.
ReadSet(h, f) ==
    [tagMaps |-> {f.tags}, attrMaps |-> {f.attrs},
     cells |-> {<<f.causes.arr, i>> : i \in 1..f.causes.len}
                  \cup {<<f.associated.arr, i>> : i \in 1..f.associated.len}]

\* The maps and the slice elements existing in h that differ in g: storage
\* a step from h to g has written.
WriteSet(h, g) ==
    [tagMaps |-> {m \in 1..Len(h.tagMaps) : g.tagMaps[m] # h.tagMaps[m]},
     attrMaps |-> {m \in 1..Len(h.attrMaps) : g.attrMaps[m] # h.attrMaps[m]},
     cells |-> {<<a, i>> \in UNION {{<<a, i>> : i \in 1..Len(h.arrays[a])} :
                                       a \in 1..Len(h.arrays)} :
                   g.arrays[a][i] # h.arrays[a][i]}]

Disjoint(w, r) ==
    /\ w.tagMaps \cap r.tagMaps = {}
    /\ w.attrMaps \cap r.attrMaps = {}
    /\ w.cells \cap r.cells = {}

\* C25: a setter applied to a builder writes no storage that inspecting a
\* finalized record reads, nor storage that a thread working on any
\* existing builder value reads or writes: records and builders share no
\* map and no slice element a setter writes.
C25_NoSharedMutableState ==
    [][SetterStep =>
         /\ \A n \in Assigned(rec, RecordNames) :
               Disjoint(WriteSet(heap, heap'), ReadSet(heap, rec[n]))
         /\ \A x \in Assigned(bld, BuilderNames) :
               Disjoint(WriteSet(heap, heap'), ReadSet(heap, bld[x]))]_vars

\* C26: Wrap, WrapC, Wrapf and WrapCf return nil when the error handed to
\* them is nil.
C26_WrapOfNilIsNil ==
    (call.op \in {"Wrap", "WrapC", "Wrapf", "WrapCf"} /\ arg = Nil) => call.ret = Nil

\* The errors found in the cause tree of err, each with its nesting depth
\* below err (err itself at depth).
RECURSIVE NodesAtDepth(_, _)
NodesAtDepth(err, depth) ==
    {<<depth, Message(err)>>}
    \cup UNION {NodesAtDepth(c, depth + 1) : c \in Elems(Causes(err).s)}

\* C27: with causes printed and CauseDepth = d > 0, no error nested deeper
\* than d below the top-level error is in the output; with CauseDepth = 0
\* every error of the cause tree is in the output.
C27_CauseDepthLimitsOutput ==
    (call.op = "printPretty" /\ call.ret.opts.Causes)
        => LET d == call.ret.opts.CauseDepth
               printed == {<<l.indent, l.text>> : l \in Elems(call.ret.lines)}
           IN  /\ d > 0 => \A l \in printed : l[1] <= d
               /\ d = 0 => printed = NodesAtDepth(arg, 0)

\* C28: WithExitCode(r, n) with a valid n on a record r returns a record
\* that differs from r in the exit code only: every facet accessor other
\* than ExitCode returns for it what it returns for r.
C28_WithHelperChangesOneFacet ==
    [][\A n \in Assigned(rec, RecordNames) : \A exitCode \in WithExitCodeArgs :
           (exitCode > 0 /\ WithExitCodeOf(rec[n], n, exitCode))
              => AllFacets(heap', rec'[Free(rec, RecordNames)])
                    = [AllFacets(heap, rec[n]) EXCEPT !.ExitCode = exitCode]]_vars

\* The addresses reachable from the set S of addresses in k steps or fewer.
RECURSIVE ReachableIn(_, _, _)
ReachableIn(g, S, k) ==
    IF k = 0 THEN S
    ELSE ReachableIn(g, S \cup UNION {Elems(CausesAt(g, n)) \ {0} : n \in S}, k - 1)

\* The cause graph of the error at root has no cycle: no error reachable
\* from root is reachable from its own causes.
Acyclic(g, root) ==
    \A n \in ReachableIn(g, {root} \ {0}, NumNodes) :
        n \notin ReachableIn(g, Elems(CausesAt(g, n)) \ {0}, NumNodes)

\* C29: a call of Code on an error whose cause graph has no cycle returns,
\* and a call of ExitCode or HttpStatusCode returns on every error, cyclic
\* cause graphs included.
C29_Termination ==
    (stack # <<>> /\ (stack[1].fn \in {"ExitCode", "HttpStatusCode"}
                        \/ Acyclic(graph, stack[1].err)))
        ~> (stack # <<>> /\ stack[1].pc = "returned")

\* Code has returned the code found at the end of the chain of causes,
\* through a graph in which a deeper error is reached along two paths.
C29_Witness ==
    /\ stack # <<>> /\ stack[1].pc = "returned"
    /\ stack[1].fn = "Code" /\ stack[1].err = 1
    /\ Acyclic(graph, 1)
    /\ graph[NumNodes].code # {} /\ stack[1].retString = "E_A"
    /\ \E n \in 1..NumNodes : Len(graph[n].causes) >= 2 /\ 0 \notin Elems(graph[n].causes)

\* The records among the causes of the Fail f.
FailCauses(h, f) == {g \in Elems(SliceOf(h, f.causes).s) : IsFail(g)}

\* The records reachable from the records S through Causes.
RECURSIVE CauseClosure(_, _)
CauseClosure(h, S) ==
    LET T == S \cup UNION {FailCauses(h, f) : f \in S}
    IN  IF T = S THEN S ELSE CauseClosure(h, T)

\* C30: no record is reachable from itself through Causes.
C30_CauseGraphAcyclic ==
    \A n \in Assigned(rec, RecordNames) :
        rec[n] \notin CauseClosure(heap, FailCauses(heap, rec[n]))

====
